---- MODULE Spec2Model ----
(***************************************************************************)
(* A model of the fresh_news robot (Yogerlan/fresh_news).                  *)
(*                                                                         *)
(*   collectors.py  News             one result node -> one record         *)
(*   collectors.py  APNewsCollector  search, filter, paginated crawl       *)
(*                                                                         *)
(* Text is a sequence of one-character strings, so that the money pattern  *)
(* and the category labels are matched character by character.             *)
(***************************************************************************)
EXTENDS Integers, Sequences, FiniteSets, TLC

(***************************************************************************)
(* Bounds of the model.                                                    *)
(***************************************************************************)
\* The largest month window requested (months ranges over 0..MaxMonths).
MaxMonths == 2
\* The largest timeout, in seconds, the collector is constructed with.
MaxTimeout == 1
\* The listings enumerated exhaustively hold at most this many result nodes.
MaxNodes == 2
\* The page length of the long listings (runs of fresh and of old records).
PageLen == 10

(***************************************************************************)
(* Text helpers.                                                           *)
(***************************************************************************)
Digits == {"0", "1", "2", "3", "4", "5", "6", "7", "8", "9"}

IsDigit(c) == c \in Digits

IsNonZeroDigit(c) == c \in (Digits \ {"0"})

\* The character at position i, or "" (no character) outside the text.
At(s, i) == IF i >= 1 /\ i <= Len(s) THEN s[i] ELSE ""

\* s[i..j] are all digits (vacuously when j < i).
AllDigits(s, i, j) == \A p \in i..j : IsDigit(At(s, p))

\* The literal w occurs in s starting at position i.
Lit(s, i, w) == \A p \in 1..Len(w) : At(s, i + p - 1) = w[p]

\* ($|\D) at position i: the end of the text, or a non-digit.
EndOrNonDigit(s, i) == i > Len(s) \/ ~IsDigit(s[i])

\* (^|\D) before position j: the start of the text, or a non-digit at j-1.
StartOrNonDigit(s, j) == j = 1 \/ (j > 1 /\ ~IsDigit(At(s, j - 1)))

\* (\d|[1-9]\d*) starting at j: the positions just after each possible match.
IntEnds(s, j) ==
    {k \in (j + 1)..(Len(s) + 1) :
        /\ AllDigits(s, j, k - 1)
        /\ (k = j + 1 \/ IsNonZeroDigit(At(s, j)))}

\* (,\d{3})* covering exactly s[h..k-1].
CommaGroups(s, h, k) ==
    /\ k >= h
    /\ (k - h) % 4 = 0
    /\ \A g \in 0..(((k - h) \div 4) - 1) :
          /\ At(s, h + 4 * g) = ","
          /\ AllDigits(s, h + 4 * g + 1, h + 4 * g + 3)

\* (\d|[1-9]\d{0,2}(,\d{3})*) starting at j: the positions after each match.
GroupedEnds(s, j) ==
    {k \in (j + 1)..(Len(s) + 1) :
        \/ (k = j + 1 /\ IsDigit(At(s, j)))
        \/ /\ IsNonZeroDigit(At(s, j))
           /\ \E h \in (j + 1)..(j + 3) :
                 /\ h <= k
                 /\ AllDigits(s, j, h - 1)
                 /\ CommaGroups(s, h, k)}

\* Mutant: the one-decimal form asks for grouped thousands too.
MoneyOneDecimal_Grouped(s) ==
    \E i \in 1..Len(s) :
        /\ s[i] = "$"
        /\ \E k \in GroupedEnds(s, i + 1) :
              /\ At(s, k) = "."
              /\ IsDigit(At(s, k + 1))
              /\ EndOrNonDigit(s, k + 2)

\* \$(\d|[1-9]\d*)\.\d($|\D)
MoneyOneDecimal(s) ==
    \E i \in 1..Len(s) :
        /\ s[i] = "$"
        /\ \E k \in IntEnds(s, i + 1) :
              /\ At(s, k) = "."
              /\ IsDigit(At(s, k + 1))
              /\ EndOrNonDigit(s, k + 2)

\* \$(\d|[1-9]\d{0,2}(,\d{3})*)\.\d\d($|\D)
MoneyTwoDecimals(s) ==
    \E i \in 1..Len(s) :
        /\ s[i] = "$"
        /\ \E k \in GroupedEnds(s, i + 1) :
              /\ At(s, k) = "."
              /\ IsDigit(At(s, k + 1))
              /\ IsDigit(At(s, k + 2))
              /\ EndOrNonDigit(s, k + 3)

\* (^|\D)(\d|[1-9]\d*) dollars
MoneyDollars(s) ==
    \E j \in 1..Len(s) :
        /\ StartOrNonDigit(s, j)
        /\ \E k \in IntEnds(s, j) :
              Lit(s, k, <<" ", "d", "o", "l", "l", "a", "r", "s">>)

\* (^|\D)(\d|[1-9]\d*) USD
MoneyUSD(s) ==
    \E j \in 1..Len(s) :
        /\ StartOrNonDigit(s, j)
        /\ \E k \in IntEnds(s, j) : Lit(s, k, <<" ", "U", "S", "D">>)

\* re.search(pattern, s) is not None, pattern the four alternatives joined.
MoneyPattern(s) ==
    MoneyOneDecimal(s) \/ MoneyTwoDecimals(s) \/ MoneyDollars(s) \/ MoneyUSD(s)

\* News.__get_money
GetMoney(title, description) == MoneyPattern(title) \/ MoneyPattern(description)

(***************************************************************************)
(* The Renderer's answers.  A result node is what the page serves for each *)
(* of its four sub-elements: a script of answers, one per lookup attempt,  *)
(* each "found" (with the value read), "notfound" (NoSuchElementException) *)
(* or "stale" (StaleElementReferenceException).                            *)
(***************************************************************************)
Found(v) == [k |-> "found", v |-> v]

NotFound(v) == [k |-> "notfound", v |-> v]

Stale(v) == [k |-> "stale", v |-> v]

\* attempts = 2 in every News.__get_* and in __click_searchfilter_heading
Attempts == 2

\* Mutant: one more fault is tolerated.
FAULTS_TOLERANCE_OneMore == 5 + 1

\* APNewsCollector.FAULTS_TOLERANCE
FAULTS_TOLERANCE == 5

\* The empty string, as text.
Empty == << >>

\* Mutant: NoSuchElementException ends the loop at once.
RECURSIVE RetryAny_NotFoundEnds(_, _, _)
RetryAny_NotFoundEnds(script, attempts, i) ==
    IF attempts = 0
    THEN [ok |-> FALSE, v |-> Empty, tries |-> i - 1]
    ELSE IF script[i].k = "found"
         THEN [ok |-> TRUE, v |-> script[i].v, tries |-> i]
         ELSE IF script[i].k = "notfound"
              THEN [ok |-> FALSE, v |-> Empty, tries |-> i]
              ELSE RetryAny_NotFoundEnds(script, attempts - 1, i + 1)

\* The retry loop of __get_title, __get_date and __get_description: both
\* exceptions cost an attempt and leave the field empty; i is the attempt made.
RECURSIVE RetryAny(_, _, _)
RetryAny(script, attempts, i) ==
    IF attempts = 0
    THEN [ok |-> FALSE, v |-> Empty, tries |-> i - 1]
    ELSE IF script[i].k = "found"
         THEN [ok |-> TRUE, v |-> script[i].v, tries |-> i]
         ELSE RetryAny(script, attempts - 1, i + 1)

\* The retry loop of __get_picture: NoSuchElementException ends the loop at
\* once, only StaleElementReferenceException costs an attempt and retries.
RECURSIVE RetryStale(_, _, _)
RetryStale(script, attempts, i) ==
    IF attempts = 0
    THEN [ok |-> FALSE, v |-> Empty, tries |-> i - 1]
    ELSE IF script[i].k = "found"
         THEN [ok |-> TRUE, v |-> script[i].v, tries |-> i]
         ELSE IF script[i].k = "notfound"
              THEN [ok |-> FALSE, v |-> Empty, tries |-> i]
              ELSE RetryStale(script, attempts - 1, i + 1)

\* News.__get_title
GetTitle(node) == RetryAny(node.title, Attempts, 1)

\* News.__get_description
GetDescription(node) == RetryAny(node.description, Attempts, 1)

(***************************************************************************)
(* Clock and calendar.  Time is in whole seconds; the model's calendar has *)
(* months of SecondsPerMonth seconds.  A formatted date is the pair        *)
(* <<month, second within the month>>; the empty date is << >>.            *)
(***************************************************************************)
SecondsPerMonth == 4

\* datetime.fromtimestamp(sec).strftime(DATE_FORMAT)
Strftime(sec) == <<sec \div SecondsPerMonth, sec % SecondsPerMonth>>

\* Calendar.time_difference_in_months(start, end): whole months elapsed.
MonthsDiff(start, end) ==
    IF end[1] > start[1] \/ (end[1] = start[1] /\ end[2] >= start[2])
    THEN (end[1] - start[1]) - (IF end[2] < start[2] THEN 1 ELSE 0)
    ELSE 0 - ((start[1] - end[1]) - (IF start[2] < end[2] THEN 1 ELSE 0))

\* News.__get_date: data-timestamp is in milliseconds.
GetDate(node) ==
    LET r == RetryAny(node.date, Attempts, 1)
    IN  [ok |-> r.ok,
         v |-> IF r.ok THEN Strftime(r.v \div 1000) ELSE Empty,
         tries |-> r.tries]

(***************************************************************************)
(* The blob store: OUTPUT_DIR, a map from file name to the bytes written   *)
(* and the number of times the file was opened for writing.                *)
(***************************************************************************)
\* sha1(pic_bytes).hexdigest(): an injective digest of the byte string.
RECURSIVE Sha1(_)
Sha1(bytes) ==
    IF bytes = << >> THEN 1
    ELSE 256 * Sha1(SubSeq(bytes, 1, Len(bytes) - 1)) + bytes[Len(bytes)]

\* f"{pic_sha1}.png"
PictureName(bytes) == <<Sha1(bytes), ".png">>

\* Mutant: the file is written only when no file of that name exists.
WriteBlob_IfAbsent(st, name, bytes) ==
    IF name \in DOMAIN st THEN st
    ELSE [n \in DOMAIN st \cup {name} |->
             IF n = name THEN [bytes |-> bytes, writes |-> 1] ELSE st[n]]

\* open(os.path.join(OUTPUT_DIR, picture), "wb"); f.write(pic_bytes)
WriteBlob(st, name, bytes) ==
    [n \in DOMAIN st \cup {name} |->
        IF n = name
        THEN [bytes |-> bytes,
              writes |-> IF name \in DOMAIN st THEN st[name].writes + 1 ELSE 1]
        ELSE st[n]]

\* News.__get_picture: the picture field and the store it leaves.
GetPicture(node, st) ==
    LET r == RetryStale(node.img, Attempts, 1)
    IN  [v |-> IF r.ok THEN PictureName(r.v) ELSE Empty,
         tries |-> r.tries,
         store |-> IF r.ok THEN WriteBlob(st, PictureName(r.v), r.v) ELSE st]

\* str.count: the non-overlapping occurrences of w in s from position i on.
RECURSIVE CountFrom(_, _, _)
CountFrom(s, w, i) ==
    IF i + Len(w) - 1 > Len(s) THEN 0
    ELSE IF Lit(s, i, w) THEN 1 + CountFrom(s, w, i + Len(w))
         ELSE CountFrom(s, w, i + 1)

\* News.__get_count
GetCount(title, description, phrase) ==
    CountFrom(title, phrase, 1) + CountFrom(description, phrase, 1)

\* f"{self.__money}"
BoolText(b) == IF b THEN "True" ELSE "False"

\* News.__init__: the record built from a node, the attempts each field took
\* and the blob store afterwards.
NewsOf(node, phrase, st) ==
    LET t == GetTitle(node)
        d == GetDate(node)
        s == GetDescription(node)
        p == GetPicture(node, st)
    IN  [title |-> t.v,
         date |-> d.v,
         description |-> s.v,
         picture |-> p.v,
         count |-> GetCount(t.v, s.v, phrase),
         money |-> GetMoney(t.v, s.v),
         tries |-> [title |-> t.tries, date |-> d.tries,
                    description |-> s.tries, picture |-> p.tries],
         store |-> p.store]

\* News.save_elements: the worksheet row of a record.
RowOf(news) ==
    [title |-> news.title, date |-> news.date,
     description |-> news.description, picture |-> news.picture,
     count |-> news.count, money |-> BoolText(news.money)]

\* The header row collect_news appends first.
HeaderRow ==
    [title |-> "Title", date |-> "Date", description |-> "Description",
     picture |-> "Picture", count |-> "Count", money |-> "Money"]

(***************************************************************************)
(* The page counter "current of total" and its comparison.                 *)
(***************************************************************************)
DigitChars == <<"0", "1", "2", "3", "4", "5", "6", "7", "8", "9">>

\* str(n) for n >= 0
RECURSIVE DecStr(_)
DecStr(n) ==
    IF n < 10 THEN <<DigitChars[n + 1]>>
    ELSE Append(DecStr(n \div 10), DigitChars[(n % 10) + 1])

\* ord(c) of a digit, up to the common offset
Code(c) == CHOOSE i \in 0..9 : DigitChars[i + 1] = c

\* Python's a < b on strings: by the first differing character, a proper
\* prefix being smaller.
StrLess(a, b) ==
    \E i \in 1..Len(b) :
        /\ \A j \in 1..(i - 1) : j <= Len(a) /\ a[j] = b[j]
        /\ (i > Len(a) \/ (i <= Len(a) /\ Code(a[i]) < Code(b[i])))

\* The text of div.Pagination-pageCounts on page p of a listing of t pages.
PageCounts(p, t) == DecStr(p) \o <<" ", "o", "f", " ">> \o DecStr(t)

\* text.split(" of "), for a text that holds the separator once.
SplitOf(text) ==
    LET sep == <<" ", "o", "f", " ">>
        at == CHOOSE i \in 1..Len(text) :
                  /\ Lit(text, i, sep)
                  /\ \A j \in 1..(i - 1) : ~Lit(text, j, sep)
    IN  <<SubSeq(text, 1, at - 1), SubSeq(text, at + Len(sep), Len(text))>>

\* current < total, as __get_news compares the two texts
HasNextPage(p, t) ==
    LET parts == SplitOf(PageCounts(p, t))
    IN  StrLess(parts[1], parts[2])

(***************************************************************************)
(* The listings served by the site: a sequence of pages, each the sequence *)
(* of its result nodes.                                                    *)
(***************************************************************************)
\* The instant the collector is constructed, in seconds.
StartTime == SecondsPerMonth * (MaxMonths + 2) + 1

\* A data-timestamp (milliseconds) whose whole-month age at StartTime is age.
TsAged(age) == (StartTime - age * SecondsPerMonth) * 1000 + 7

\* The same age, one calendar month further back (a later second of it).
TsAgedLate(age) == (StartTime - (age + 1) * SecondsPerMonth + 1) * 1000

ImageA == <<1, 2>>

ImageB == <<2, 1>>

TitleText == <<"$", "5", ".", "5">>

DescriptionText == <<"a", "b", "a">>

Once(r) == <<r, r>>

Node(date, img) ==
    [title |-> Once(Found(TitleText)), date |-> date,
     description |-> Once(Found(DescriptionText)), img |-> img]

DateScripts ==
    {Once(Found(TsAged(0))),
     <<Stale(0), Found(TsAgedLate(1))>>,
     <<Stale(0), NotFound(0)>>}

ImgScripts == {Once(Found(ImageA)), <<Stale(Empty), Found(ImageB)>>}

SmallKinds == {Node(d, i) : d \in DateScripts, i \in ImgScripts}

RECURSIVE Flatten(_)
Flatten(pages) ==
    IF pages = << >> THEN << >> ELSE Head(pages) \o Flatten(Tail(pages))

\* The listings of p pages holding at most n nodes in all.
RECURSIVE SitesOf(_, _)
SitesOf(p, n) ==
    IF p = 0 THEN {<< >>}
    ELSE UNION {{<<pg>> \o rest : pg \in [1..k -> SmallKinds],
                                  rest \in SitesOf(p - 1, n - k)} :
                k \in 0..n}

\* Every listing of one or two pages (empty pages included) that holds at most
\* MaxNodes nodes.
SmallSites == SitesOf(1, MaxNodes) \cup SitesOf(2, MaxNodes)

FreshNode == Node(Once(Found(TsAged(0))), Once(Found(ImageA)))

\* Older than every window: its age is the largest window requested.
OldNode == Node(Once(Found(TsAged(MaxMonths))), Once(NotFound(Empty)))

Rep(node, n) == [i \in 1..n |-> node]

Min(a, b) == IF a < b THEN a ELSE b

\* nodes cut into pages of pl nodes (one empty page for no node)
Paginate(nodes, pl) ==
    LET np == IF Len(nodes) = 0 THEN 1 ELSE (Len(nodes) + pl - 1) \div pl
    IN  [p \in 1..np |->
            SubSeq(nodes, (p - 1) * pl + 1, Min(p * pl, Len(nodes)))]

\* a old nodes, f fresh nodes, b old nodes, one fresh node, in pages of pl
RunSite(a, f, b, pl) ==
    Paginate(Rep(OldNode, a) \o Rep(FreshNode, f) \o Rep(OldNode, b)
             \o <<FreshNode>>, pl)

RunSites ==
    {RunSite(a, f, b, pl) :
        a \in 0..FAULTS_TOLERANCE,
        f \in {0, 1, PageLen},
        b \in {0, PageLen} \cup ((FAULTS_TOLERANCE - 1)..(FAULTS_TOLERANCE + 1)),
        pl \in {2, PageLen}}

\* PageLen pages of one fresh node each.
TenPages == Paginate(Rep(FreshNode, PageLen), 1)

Sites == SmallSites \cup RunSites \cup {TenPages}

SearchPhrase == <<"a">>

(***************************************************************************)
(* The collector (collectors.py).                                          *)
(***************************************************************************)
VARIABLES
    requested,          \* the months argument of __init__
    months,             \* self.__months
    now,                \* self.__now, formatted
    deadline,           \* self.__timeout
    clock,              \* datetime.now().timestamp()
    site,               \* the listing the site serves
    pc,                 \* where the run stands
    page,               \* the page the browser shows
    nodes,              \* the elements get_webelements returned for the page
    idx,                \* how many of them the for loop has visited
    remaining_faults,   \* the fault budget of __get_news
    news,               \* the News object built last
    rows,               \* the worksheet, row by row
    store,              \* the files of OUTPUT_DIR written by __get_picture
    saved,              \* save_workbook was called
    categories,         \* self.__categories, the text requested
    panel,              \* the labels of the filter panel, as rendered
    pending,            \* the local set categories of __filter_news
    found,              \* the local found of __filter_news
    opened,             \* the last click on the panel heading succeeded
    heading_tries,      \* the attempts that click took
    clicked,            \* the labels clicked, in order
    stuck,              \* the click on next page leaves the page as it is
    shots,              \* tasks.py: the screenshots asked for, in order
    failed              \* tasks.py: the setup phases that raised, in order

crawlVars == <<requested, months, now, deadline, clock, site, page, nodes, idx,
               remaining_faults, news, rows, store, saved>>

filterVars == <<categories, panel, pending, found, opened, heading_tries,
                clicked>>

taskVars == <<shots, failed>>

vars == <<crawlVars, filterVars, stuck, taskVars, pc>>

\* Mutant: the window is not shortened by one.
EffectiveMonths_NoMinusOne(m) == m

\* self.__months = months if months == 0 else months - 1
EffectiveMonths(m) == IF m = 0 THEN m ELSE m - 1

\* Mutant: a window of zero accepts every date.
InWindow_ZeroUnbounded(date, nowText, window) ==
    window = 0 \/ ~(MonthsDiff(date, nowText) > window)

\* not (months_diff > self.__months)
InWindow(date, nowText, window) == ~(MonthsDiff(date, nowText) > window)

\* Mutant: the budget is not looked at in the node check.
MustStop_DeadlineOnly(t, limit, faults) == t >= limit

\* datetime.now().timestamp() >= self.__timeout or not remaining_faults
MustStop(t, limit, faults) == t >= limit \/ faults = 0

\* while remaining_faults > 0
LoopGuard(faults) == faults > 0

NoNews ==
    [title |-> Empty, date |-> Empty, description |-> Empty,
     picture |-> Empty, count |-> 0, money |-> FALSE,
     tries |-> [title |-> 0, date |-> 0, description |-> 0, picture |-> 0]]

EmptyStore == [n \in {} |-> 0]

\* APNewsCollector.__init__
InitCollector(m, timeout) ==
    /\ requested = m
    /\ months = EffectiveMonths(m)
    /\ now = Strftime(StartTime)
    /\ deadline = StartTime + timeout
    /\ clock = StartTime
    /\ site = << >>
    /\ page = 1
    /\ nodes = << >>
    /\ idx = 0
    /\ remaining_faults = FAULTS_TOLERANCE
    /\ news = NoNews
    /\ rows = << >>
    /\ store = EmptyStore
    /\ saved = FALSE

\* __filter_news has not run.
InitFilter(text, labels) ==
    /\ categories = text
    /\ panel = labels
    /\ pending = {}
    /\ found = FALSE
    /\ opened = FALSE
    /\ heading_tries = 0
    /\ clicked = << >>

\* tasks.py has not run.
InitTask ==
    /\ shots = << >>
    /\ failed = << >>

Init ==
    /\ \E m \in 0..MaxMonths, timeout \in {0, MaxTimeout} :
          InitCollector(m, timeout)
    /\ InitFilter(Empty, << >>)
    /\ InitTask
    /\ stuck = FALSE
    /\ pc = "collect_news"

\* Time passes.  The clock is read in __get_news only, so the time the setup
\* phases took passes as __get_news is entered; instants after the deadline
\* behave as the deadline does.
Tick ==
    /\ pc \in {"get_news", "while", "for"}
    /\ clock < deadline
    /\ clock' = clock + 1
    /\ UNCHANGED <<requested, months, now, deadline, site, pc, page, nodes,
                   idx, remaining_faults, news, rows, store, saved>>
    /\ UNCHANGED filterVars
    /\ UNCHANGED <<stuck, taskVars>>

\* collect_news: create_workbook and the header row
CreateWorkbook ==
    /\ pc = "collect_news"
    /\ rows' = <<HeaderRow>>
    /\ pc' = "open_website"
    /\ UNCHANGED <<requested, months, now, deadline, clock, site, page, nodes,
                   idx, remaining_faults, news, store, saved>>
    /\ UNCHANGED filterVars
    /\ UNCHANGED <<stuck, taskVars>>

\* A setup phase (__open_website, __search_news, __filter_news) returns, or
\* raises and ends collect_news.
SetupPhase(here, next) ==
    /\ pc = here
    /\ \E ok \in BOOLEAN : pc' = IF ok THEN next ELSE "raised"
    /\ UNCHANGED <<requested, months, now, deadline, clock, site, page, nodes,
                   idx, remaining_faults, news, rows, store, saved>>
    /\ UNCHANGED filterVars
    /\ UNCHANGED <<stuck, taskVars>>

OpenWebsite == SetupPhase("open_website", "search_news")

SearchNews == SetupPhase("search_news", "filter_news")

\* __filter_news returns or raises; the page then shows the listing the
\* search, its sort order and its filters select.
FilterNews ==
    /\ pc = "filter_news"
    /\ \E ok \in BOOLEAN :
          /\ pc' = IF ok THEN "get_news" ELSE "raised"
          /\ site' \in IF ok THEN Sites ELSE {site}
    /\ UNCHANGED <<requested, months, now, deadline, clock, page, nodes, idx,
                   remaining_faults, news, rows, store, saved>>
    /\ UNCHANGED filterVars
    /\ UNCHANGED <<stuck, taskVars>>

\* __get_news: remaining_faults = self.FAULTS_TOLERANCE
EnterGetNews ==
    /\ pc = "get_news"
    /\ remaining_faults' = FAULTS_TOLERANCE
    /\ pc' = "while"
    /\ UNCHANGED <<requested, months, now, deadline, clock, site, page, nodes,
                   idx, news, rows, store, saved>>
    /\ UNCHANGED filterVars
    /\ UNCHANGED <<stuck, taskVars>>

\* while remaining_faults > 0: get_webelements snapshots the page's nodes
LoadPage ==
    /\ pc = "while"
    /\ LoopGuard(remaining_faults)
    /\ nodes' = site[page]
    /\ idx' = 0
    /\ pc' = "for"
    /\ UNCHANGED <<requested, months, now, deadline, clock, site, page,
                   remaining_faults, news, rows, store, saved>>
    /\ UNCHANGED filterVars
    /\ UNCHANGED <<stuck, taskVars>>

\* the while condition fails: __get_news returns
ExitLoop ==
    /\ pc = "while"
    /\ ~LoopGuard(remaining_faults)
    /\ pc' = "save"
    /\ UNCHANGED <<requested, months, now, deadline, clock, site, page, nodes,
                   idx, remaining_faults, news, rows, store, saved>>
    /\ UNCHANGED filterVars
    /\ UNCHANGED <<stuck, taskVars>>

\* the check at the top of a node iteration: return
StopMidScan ==
    /\ pc = "for"
    /\ idx < Len(nodes)
    /\ MustStop(clock, deadline, remaining_faults)
    /\ pc' = "save"
    /\ UNCHANGED <<requested, months, now, deadline, clock, site, page, nodes,
                   idx, remaining_faults, news, rows, store, saved>>
    /\ UNCHANGED filterVars
    /\ UNCHANGED <<stuck, taskVars>>

\* Mutant: a record leaves the budget as it is.
FaultsAfter_NoReset(faults, accepted) ==
    IF accepted THEN faults ELSE faults - 1

\* The budget after a node: one less for a fault, the ceiling for a record.
FaultsAfter(faults, accepted) ==
    IF accepted THEN FAULTS_TOLERANCE ELSE faults - 1

\* The record of a node is kept: it has a date, and the date is in the window.
Accepted(n, nowText, window) ==
    n.date # Empty /\ InWindow(n.date, nowText, window)

\* Mutant: every node is saved.
RowsAfter_SaveAll(sheet, n, accepted) == Append(sheet, RowOf(n))

\* The worksheet after a node.
RowsAfter(sheet, n, accepted) ==
    IF accepted THEN Append(sheet, RowOf(n)) ELSE sheet

\* one node iteration: build the News, then discard or save it
ScanNode ==
    /\ pc = "for"
    /\ idx < Len(nodes)
    /\ ~MustStop(clock, deadline, remaining_faults)
    /\ LET built == NewsOf(nodes[idx + 1], SearchPhrase, store)
           n == [f \in DOMAIN NoNews |-> built[f]]
           accepted == Accepted(n, now, months)
       IN  /\ news' = n
           /\ store' = built.store
           /\ rows' = RowsAfter(rows, n, accepted)
           /\ remaining_faults' = FaultsAfter(remaining_faults, accepted)
    /\ idx' = idx + 1
    /\ UNCHANGED <<requested, months, now, deadline, clock, site, pc, page,
                   nodes, saved>>
    /\ UNCHANGED filterVars
    /\ UNCHANGED <<stuck, taskVars>>

\* Mutant: a new page starts with a full budget.
NextPage_ResetsBudget ==
    /\ pc = "for"
    /\ idx = Len(nodes)
    /\ HasNextPage(page, Len(site))
    /\ page' = IF stuck THEN page ELSE page + 1
    /\ remaining_faults' = FAULTS_TOLERANCE
    /\ pc' = "while"
    /\ UNCHANGED <<requested, months, now, deadline, clock, site, nodes, idx,
                   news, rows, store, saved>>
    /\ UNCHANGED filterVars
    /\ UNCHANGED <<stuck, taskVars>>

\* after the for loop: current < total, click next page
NextPage ==
    /\ pc = "for"
    /\ idx = Len(nodes)
    /\ HasNextPage(page, Len(site))
    /\ page' = IF stuck THEN page ELSE page + 1
    /\ pc' = "while"
    /\ UNCHANGED <<requested, months, now, deadline, clock, site, nodes, idx,
                   remaining_faults, news, rows, store, saved>>
    /\ UNCHANGED filterVars
    /\ UNCHANGED <<stuck, taskVars>>

\* after the for loop: not current < total, return
LastPage ==
    /\ pc = "for"
    /\ idx = Len(nodes)
    /\ ~HasNextPage(page, Len(site))
    /\ pc' = "save"
    /\ UNCHANGED <<requested, months, now, deadline, clock, site, page, nodes,
                   idx, remaining_faults, news, rows, store, saved>>
    /\ UNCHANGED filterVars
    /\ UNCHANGED <<stuck, taskVars>>

\* collect_news: save_workbook
SaveWorkbook ==
    /\ pc = "save"
    /\ saved' = TRUE
    /\ pc' = "done"
    /\ UNCHANGED <<requested, months, now, deadline, clock, site, page, nodes,
                   idx, remaining_faults, news, rows, store>>
    /\ UNCHANGED filterVars
    /\ UNCHANGED <<stuck, taskVars>>

Next ==
    \/ Tick
    \/ CreateWorkbook
    \/ OpenWebsite
    \/ SearchNews
    \/ FilterNews
    \/ EnterGetNews
    \/ LoadPage
    \/ ExitLoop
    \/ StopMidScan
    \/ ScanNode
    \/ NextPage
    \/ LastPage
    \/ SaveWorkbook

Spec == Init /\ [][Next]_vars
(***************************************************************************)
(* __get_news on a listing whose pagination may be stalled (SpecStall):    *)
(* the page counter reads "1 of 2" and the click on next page may leave    *)
(* the page as it is.  The clock keeps advancing up to the deadline, and   *)
(* every step of the code that can be taken is taken in the end.           *)
(***************************************************************************)
\* The records the worksheet takes before the clock advances again.
MaxRows == 3

StallPages ==
    {<< >>, <<FreshNode>>, <<OldNode>>, <<FreshNode, OldNode>>,
     Rep(OldNode, FAULTS_TOLERANCE)}

StallSites ==
    {<<first, second>> : first \in StallPages, second \in {<< >>, <<FreshNode>>}}

\* collect_news has reached __get_news.
StallInit ==
    /\ \E m \in 0..1, timeout \in {0, MaxTimeout} :
          /\ requested = m
          /\ months = EffectiveMonths(m)
          /\ deadline = StartTime + timeout
    /\ now = Strftime(StartTime)
    /\ clock = StartTime
    /\ site \in StallSites
    /\ stuck \in BOOLEAN
    /\ pc = "get_news"
    /\ page = 1
    /\ nodes = << >>
    /\ idx = 0
    /\ remaining_faults = FAULTS_TOLERANCE
    /\ news = NoNews
    /\ rows = <<HeaderRow>>
    /\ store = EmptyStore
    /\ saved = FALSE
    /\ InitFilter(Empty, << >>)
    /\ InitTask

\* A node iteration; building a News takes time, so the clock advances before
\* the worksheet holds more than MaxRows records.
StallScanNode ==
    /\ (Len(rows) <= MaxRows \/ clock = deadline)
    /\ ScanNode

\* A step of __get_news or of collect_news after it.
StallStep ==
    \/ EnterGetNews
    \/ LoadPage
    \/ ExitLoop
    \/ StopMidScan
    \/ StallScanNode
    \/ NextPage
    \/ LastPage
    \/ SaveWorkbook

StallNext == Tick \/ StallStep

SpecStall ==
    StallInit /\ [][StallNext]_vars /\ WF_vars(Tick) /\ WF_vars(StallStep)

(***************************************************************************)
(* News on its own (SpecNews): one result node, every combination of the   *)
(* answers below, built once into a record.                                *)
(***************************************************************************)
Text_11_1_total == <<"$", "1", "1", ".", "1", " ", "t", "o", "t", "a", "l">>

Text_111_111_11 == <<"$", "1", "1", "1", ",", "1", "1", "1", ".", "1", "1">>

Text_spent_11_dollars == <<"s", "p", "e", "n", "t", " ", "1", "1", " ", "d", "o", "l", "l", "a", "r", "s">>

Text_11_dollars_worth == <<"1", "1", " ", "d", "o", "l", "l", "a", "r", "s", " ", "w", "o", "r", "t", "h">>

Text_no_amount_here == <<"n", "o", " ", "a", "m", "o", "u", "n", "t", " ", "h", "e", "r", "e">>

Text_1111_1 == <<"$", "1", "1", "1", "1", ".", "1">>

Text_1111_11 == <<"$", "1", "1", "1", "1", ".", "1", "1">>

MoneyTexts ==
    {Text_11_1_total, Text_111_111_11, Text_spent_11_dollars,
     Text_11_dollars_worth, Text_no_amount_here, Text_1111_1, Text_1111_11}

TextScripts ==
    {Once(Found(t)) : t \in MoneyTexts}
    \cup {<<Stale(Empty), Found(Text_11_1_total)>>,
          <<NotFound(Empty), Found(Text_no_amount_here)>>,
          <<Stale(Empty), NotFound(Empty)>>,
          Once(NotFound(Empty))}

NewsDateScripts ==
    DateScripts \cup {<<NotFound(0), Found(TsAged(1))>>, Once(Stale(0))}

NewsImgScripts ==
    ImgScripts \cup {<<NotFound(Empty), Found(ImageA)>>, Once(Stale(Empty))}

NewsNodes ==
    {[title |-> t, date |-> d, description |-> s, img |-> i] :
        t \in TextScripts, d \in NewsDateScripts, s \in TextScripts,
        i \in NewsImgScripts}

\* The node News is to be built from, and the store it may find.
NewsInit ==
    /\ \E node \in NewsNodes : nodes = <<node>>
    /\ store \in {EmptyStore, WriteBlob(EmptyStore, PictureName(ImageA), ImageA)}
    /\ requested = 0
    /\ months = 0
    /\ now = Strftime(StartTime)
    /\ deadline = StartTime
    /\ clock = StartTime
    /\ site = << >>
    /\ pc = "news"
    /\ page = 1
    /\ idx = 0
    /\ remaining_faults = FAULTS_TOLERANCE
    /\ news = NoNews
    /\ rows = << >>
    /\ saved = FALSE
    /\ InitFilter(Empty, << >>)
    /\ InitTask
    /\ stuck = FALSE

\* News(element, search_phrase, files)
BuildNews ==
    /\ pc = "news"
    /\ LET built == NewsOf(nodes[1], SearchPhrase, store)
       IN  /\ news' = [f \in DOMAIN NoNews |-> built[f]]
           /\ store' = built.store
    /\ idx' = 1
    /\ pc' = "built"
    /\ UNCHANGED <<requested, months, now, deadline, clock, site, page, nodes,
                   remaining_faults, rows, saved>>
    /\ UNCHANGED filterVars
    /\ UNCHANGED <<stuck, taskVars>>

SpecNews == NewsInit /\ [][BuildNews]_vars

(***************************************************************************)
(* The category negotiator on its own (SpecFilter): __filter_news of       *)
(* collectors.py, step by step, for every requested text and panel below.  *)
(***************************************************************************)
UpperChars ==
    <<"A", "B", "C", "D", "E", "F", "G", "H", "I", "J", "K", "L", "M",
      "N", "O", "P", "Q", "R", "S", "T", "U", "V", "W", "X", "Y", "Z">>

LowerChars ==
    <<"a", "b", "c", "d", "e", "f", "g", "h", "i", "j", "k", "l", "m",
      "n", "o", "p", "q", "r", "s", "t", "u", "v", "w", "x", "y", "z">>

\* str.lower(), one character
LowerChar(c) ==
    IF \E i \in 1..Len(UpperChars) : UpperChars[i] = c
    THEN LowerChars[CHOOSE i \in 1..Len(UpperChars) : UpperChars[i] = c]
    ELSE c

\* str.lower()
Lower(text) == [i \in 1..Len(text) |-> LowerChar(text[i])]

\* text.split(","): the pieces between the commas, empty pieces kept
RECURSIVE SplitComma(_)
SplitComma(text) ==
    IF \A i \in 1..Len(text) : text[i] # ","
    THEN <<text>>
    ELSE LET at == CHOOSE i \in 1..Len(text) :
                       text[i] = "," /\ \A j \in 1..(i - 1) : text[j] # ","
         IN  <<SubSeq(text, 1, at - 1)>>
             \o SplitComma(SubSeq(text, at + 1, Len(text)))

\* {category.lower() for category in self.__categories.split(",")}
CategorySet(text) ==
    LET parts == SplitComma(text)
    IN  {Lower(parts[i]) : i \in 1..Len(parts)}

\* Mutant: labels are compared as rendered.
LabelKey_AsRendered(label) == label

\* element.text.lower()
LabelKey(label) == Lower(label)

\* The first label of the panel whose key is pending (0: none): where the for
\* loop of __filter_news breaks.
FirstMatch(labels, wanted) ==
    IF \E i \in 1..Len(labels) : LabelKey(labels[i]) \in wanted
    THEN CHOOSE i \in 1..Len(labels) :
             /\ LabelKey(labels[i]) \in wanted
             /\ \A j \in 1..(i - 1) : LabelKey(labels[j]) \notin wanted
    ELSE 0

\* __click_searchfilter_heading: the click is retried on either exception.
ClickHeading(script) == RetryAny(script, Attempts, 1)

\* The largest number of labels the panel renders.
MaxLabels == 2

Label_world == <<"w", "o", "r", "l", "d">>

Label_WORLD == <<"W", "O", "R", "L", "D">>

Label_Politics == <<"P", "o", "l", "i", "t", "i", "c", "s">>

Label_POLITICS == <<"P", "O", "L", "I", "T", "I", "C", "S">>

Label_Sports == <<"S", "p", "o", "r", "t", "s">>

\* element.text of a label that is not displayed
Label_hidden == << >>

LabelTexts ==
    {Label_world, Label_WORLD, Label_Politics, Label_POLITICS, Label_Sports,
     Label_hidden}

Panels == UNION {[1..n -> LabelTexts] : n \in 0..MaxLabels}

Cat_World == <<"W", "o", "r", "l", "d">>

Cat_Politics_World == <<"P", "o", "l", "i", "t", "i", "c", "s", ",", "W", "o", "r", "l", "d">>

Cat_world_POLITICS == <<"w", "o", "r", "l", "d", ",", "P", "O", "L", "I", "T", "I", "C", "S">>

Cat_Sports_World == <<"S", "p", "o", "r", "t", "s", ",", "W", "o", "r", "l", "d">>

Cat_World_world == <<"W", "o", "r", "l", "d", ",", "w", "o", "r", "l", "d">>

Cat_Business == <<"B", "u", "s", "i", "n", "e", "s", "s">>

CategoryTexts ==
    {Empty, Cat_World, Cat_Politics_World, Cat_world_POLITICS,
     Cat_Sports_World, Cat_World_world, Cat_Business}

\* What the click on the panel heading meets, attempt by attempt.
HeadingScripts ==
    {Once(Found(Empty)), <<Stale(Empty), Found(Empty)>>,
     <<NotFound(Empty), Stale(Empty)>>, Once(Stale(Empty))}

FilterInit ==
    /\ InitCollector(0, 0)
    /\ \E text \in CategoryTexts, labels \in Panels : InitFilter(text, labels)
    /\ InitTask
    /\ stuck = FALSE
    /\ pc = "filter_news"

\* if self.__sort_by: select_from_list_by_label, which returns or raises;
\* then the set of categories is built and found = True
FilterBegin ==
    /\ pc = "filter_news"
    /\ \E ok \in BOOLEAN :
          IF ok
          THEN /\ pending' = CategorySet(categories)
               /\ found' = TRUE
               /\ pc' = "filter_while"
          ELSE /\ pc' = "raised"
               /\ UNCHANGED <<pending, found>>
    /\ UNCHANGED <<categories, panel, opened, heading_tries, clicked>>
    /\ UNCHANGED crawlVars
    /\ UNCHANGED <<stuck, taskVars>>

\* while found and len(categories): found = False, click the panel heading
FilterRound ==
    /\ pc = "filter_while"
    /\ found /\ pending # {}
    /\ found' = FALSE
    /\ \E script \in HeadingScripts :
          LET r == ClickHeading(script)
          IN  /\ opened' = r.ok
              /\ heading_tries' = r.tries
    /\ pc' = "filter_for"
    /\ UNCHANGED <<categories, panel, pending, clicked>>
    /\ UNCHANGED crawlVars
    /\ UNCHANGED <<stuck, taskVars>>

\* the while condition fails: __filter_news returns
FilterReturn ==
    /\ pc = "filter_while"
    /\ ~(found /\ pending # {})
    /\ pc' = "filtered"
    /\ UNCHANGED filterVars
    /\ UNCHANGED crawlVars
    /\ UNCHANGED <<stuck, taskVars>>

\* for element in get_webelements(labels): the first label whose lowered text
\* is pending is clicked (the click returns or raises), and the loop breaks
FilterScan ==
    /\ pc = "filter_for"
    /\ LET i == FirstMatch(panel, pending)
       IN  IF i = 0
           THEN /\ pc' = "filter_while"
                /\ UNCHANGED <<pending, found, clicked>>
           ELSE \E ok \in BOOLEAN :
                   IF ok
                   THEN /\ clicked' = Append(clicked, panel[i])
                        /\ found' = TRUE
                        /\ pending' = pending \ {LabelKey(panel[i])}
                        /\ pc' = "filter_while"
                   ELSE /\ pc' = "raised"
                        /\ UNCHANGED <<pending, found, clicked>>
    /\ UNCHANGED <<categories, panel, opened, heading_tries>>
    /\ UNCHANGED crawlVars
    /\ UNCHANGED <<stuck, taskVars>>

FilterNext == FilterBegin \/ FilterRound \/ FilterReturn \/ FilterScan

SpecFilter == FilterInit /\ [][FilterNext]_vars

(***************************************************************************)
(* The collector of tasks.py (SpecTask): collect_news runs its three setup *)
(* phases, each inside try/except Exception, and then __output_results.    *)
(* A call of the browser library returns or raises.                        *)
(***************************************************************************)
TaskInit ==
    /\ InitCollector(0, 0)
    /\ \E text \in CategoryTexts, labels \in Panels : InitFilter(text, labels)
    /\ InitTask
    /\ stuck = FALSE
    /\ pc = "task_open_website"

\* except Exception: logging.exception(...), then screenshot(filename), which
\* returns (the phase method returns, collect_news goes on with next) or raises
\* (out of the handler, out of the phase method and out of collect_news).
TaskExcept(phase, filename, next) ==
    /\ failed' = Append(failed, phase)
    /\ shots' = Append(shots, filename)
    /\ \E ok \in BOOLEAN : pc' = IF ok THEN next ELSE "task_raised"

\* __open_website: open_browser, the implicit wait, the consent button
TaskOpenWebsite ==
    /\ pc = "task_open_website"
    /\ \/ /\ pc' = "task_search_news"
          /\ UNCHANGED taskVars
       \/ TaskExcept("open_website", "output/open_website_exception.png",
                     "task_search_news")
    /\ UNCHANGED <<crawlVars, filterVars, stuck>>

\* __search_news: the search button, the phrase, the submit button
TaskSearchNews ==
    /\ pc = "task_search_news"
    /\ \/ /\ pc' = "task_filter_news"
          /\ UNCHANGED taskVars
       \/ TaskExcept("search_news", "output/search_news_exception.png",
                     "task_filter_news")
    /\ UNCHANGED <<crawlVars, filterVars, stuck>>

\* The handler of __filter_news.
TaskFilterExcept ==
    TaskExcept("filter_news", "output/filter_news_exception.png",
               "task_output_results")

\* __filter_news: select_from_list_by_label, the set of categories, found = True
TaskFilterBegin ==
    /\ pc = "task_filter_news"
    /\ \/ /\ pending' = CategorySet(categories)
          /\ found' = TRUE
          /\ pc' = "task_filter_while"
          /\ UNCHANGED taskVars
       \/ /\ TaskFilterExcept
          /\ UNCHANGED <<pending, found>>
    /\ UNCHANGED <<categories, panel, opened, heading_tries, clicked>>
    /\ UNCHANGED <<crawlVars, stuck>>

\* while found and len(categories): found = False, one click on the heading
TaskFilterRound ==
    /\ pc = "task_filter_while"
    /\ found /\ pending # {}
    /\ found' = FALSE
    /\ heading_tries' = 1
    /\ \/ /\ opened' = TRUE
          /\ pc' = "task_filter_for"
          /\ UNCHANGED taskVars
       \/ /\ opened' = FALSE
          /\ TaskFilterExcept
    /\ UNCHANGED <<categories, panel, pending, clicked>>
    /\ UNCHANGED <<crawlVars, stuck>>

\* the while condition fails: __filter_news returns
TaskFilterReturn ==
    /\ pc = "task_filter_while"
    /\ ~(found /\ pending # {})
    /\ pc' = "task_output_results"
    /\ UNCHANGED <<crawlVars, filterVars, stuck, taskVars>>

\* for element in get_webelements(labels): click_element on the first label
\* whose lowered text is pending, then break
TaskFilterScan ==
    /\ pc = "task_filter_for"
    /\ LET i == FirstMatch(panel, pending)
       IN  IF i = 0
           THEN /\ pc' = "task_filter_while"
                /\ UNCHANGED <<pending, found, clicked, taskVars>>
           ELSE \/ /\ clicked' = Append(clicked, panel[i])
                   /\ found' = TRUE
                   /\ pending' = pending \ {LabelKey(panel[i])}
                   /\ pc' = "task_filter_while"
                   /\ UNCHANGED taskVars
                \/ /\ TaskFilterExcept
                   /\ UNCHANGED <<pending, found, clicked>>
    /\ UNCHANGED <<categories, panel, opened, heading_tries>>
    /\ UNCHANGED <<crawlVars, stuck>>

\* __output_results: screenshot(filename="output/apnews.png"), outside any try
TaskOutputResults ==
    /\ pc = "task_output_results"
    /\ shots' = Append(shots, "output/apnews.png")
    /\ \E ok \in BOOLEAN : pc' = IF ok THEN "task_done" ELSE "task_raised"
    /\ UNCHANGED <<crawlVars, filterVars, stuck, failed>>

TaskNext ==
    \/ TaskOpenWebsite
    \/ TaskSearchNews
    \/ TaskFilterBegin
    \/ TaskFilterRound
    \/ TaskFilterReturn
    \/ TaskFilterScan
    \/ TaskOutputResults

SpecTask == TaskInit /\ [][TaskNext]_vars

(***************************************************************************)
(* Properties of the crawl (Spec).                                         *)
(***************************************************************************)
\* A step of the for loop that built the News of one more node.
ScanStep == pc = "for" /\ pc' = "for" /\ idx' = idx + 1

\* The Renderer served a date for the node the News was built from last.
Dated == pc \in {"for", "while", "save", "done"} /\ news.date # Empty

\* The image bytes picture extraction read from a node (Empty: none).
ServedImage(node) == RetryStale(node.img, Attempts, 1).v

\* C1: with a window of m > 0 months requested, a scanned node is appended to
\* the worksheet only if its date is at most m - 1 whole months before now;
\* a node exactly m months old is not appended and costs one fault.
C1_WindowIsLessThanM ==
    [][(ScanStep /\ requested > 0) =>
          /\ (rows' # rows =>
                /\ news'.date # Empty
                /\ MonthsDiff(news'.date, now) <= requested - 1)
          /\ ((news'.date # Empty /\ MonthsDiff(news'.date, now) = requested) =>
                /\ rows' = rows
                /\ remaining_faults' = remaining_faults - 1)]_vars

\* C1 witness: a node exactly m months old was scanned and cost a fault, after
\* a record had been appended.
C1_Witness ==
    /\ requested > 0
    /\ pc = "for"
    /\ idx > 0
    /\ Dated
    /\ MonthsDiff(news.date, now) = requested
    /\ remaining_faults = FAULTS_TOLERANCE - 1
    /\ Len(rows) >= 2

C3_BudgetBounded ==
    /\ [](remaining_faults \in 0..FAULTS_TOLERANCE)
    /\ [][(pc = "for" /\ remaining_faults = 0) =>
             /\ idx' = idx
             /\ news' = news
             /\ rows' = rows
             /\ store' = store]_vars

\* C3 witness: the budget is zero with nodes of the page still unvisited.
C3_Witness == pc = "for" /\ remaining_faults = 0 /\ idx < Len(nodes)

\* C4: a step that appends a record leaves the budget at its ceiling, which
\* is positive, so neither the node check nor the while test stops the crawl
\* for want of budget right after it.
C4_AcceptResetsBudget ==
    [][(ScanStep /\ rows' # rows) =>
          /\ remaining_faults' = FAULTS_TOLERANCE
          /\ remaining_faults' > 0
          /\ LoopGuard(remaining_faults')]_vars

\* C4 witness: four old nodes took the budget to one, then a fresh node was
\* appended and the budget is back at the ceiling, more old nodes to come.
C4_Witness ==
    /\ site = RunSite(FAULTS_TOLERANCE - 1, 1, FAULTS_TOLERANCE - 1, PageLen)
    /\ pc = "for"
    /\ idx = FAULTS_TOLERANCE
    /\ Len(rows) = 2
    /\ remaining_faults = FAULTS_TOLERANCE

\* The listing of the end-to-end scenario: a page of PageLen fresh records, a
\* page of PageLen old records, a third page.
E2ESite == RunSite(0, PageLen, PageLen, PageLen)

\* C5: on that listing page 3 is never requested, no node of page 2 after
\* the fifth is extracted, and a run the deadline does not cut short ends
\* after the fifth old node of page 2 with exactly PageLen records appended.
C5_EndToEnd ==
    site = E2ESite =>
        /\ Len(site) = 3
        /\ page <= 2
        /\ ((page = 2 /\ pc # "while") => idx <= 5)
        /\ Len(rows) <= 1 + PageLen
        /\ ((pc = "done" /\ clock < deadline) =>
              /\ page = 2
              /\ idx = 5
              /\ remaining_faults = 0
              /\ Len(rows) = 1 + PageLen
              /\ saved)

\* C5 witness: the scenario ran to its end within the deadline.
C5_Witness ==
    /\ site = E2ESite
    /\ pc = "done"
    /\ clock < deadline
    /\ page = 2
    /\ idx = 5
    /\ Len(rows) = 1 + PageLen

\* C6 as stated: with the deadline at the start time no node is extracted,
\* no record is appended and no next-page action is performed.
C6_DeadlineAtStart ==
    deadline = StartTime =>
        /\ news = NoNews
        /\ store = EmptyStore
        /\ Len(rows) <= 1
        /\ page = 1

C10_HeaderThenAcceptedRows ==
    /\ [](pc # "collect_news" => (Len(rows) >= 1 /\ rows[1] = HeaderRow))
    /\ [](pc = "collect_news" => rows = << >>)
    /\ [][\/ rows' = rows
          \/ pc = "collect_news" /\ rows' = <<HeaderRow>>
          \/ /\ ScanStep
             /\ Accepted(news', now, months)
             /\ rows' = Append(rows, RowOf(news'))]_vars
    /\ [][(ScanStep /\ ~Accepted(news', now, months)) => rows' = rows]_vars

\* C10 witness: a saved worksheet of the header and two different records,
\* and the node scanned last was discarded for its missing date.
C10_Witness ==
    /\ pc = "done"
    /\ saved
    /\ Len(rows) = 3
    /\ rows[2].picture = PictureName(ServedImage(site[1][1]))
    /\ rows[3].picture = PictureName(ServedImage(site[1][2]))
    /\ rows[2].picture # rows[3].picture

(***************************************************************************)
(* Properties of the category negotiator (SpecFilter).                     *)
(***************************************************************************)
\* How many of the labels clicked are, ignoring case, the category c.
RECURSIVE ClicksOn(_, _)
ClicksOn(labels, c) ==
    IF labels = << >> THEN 0
    ELSE (IF Lower(Head(labels)) = c THEN 1 ELSE 0) + ClicksOn(Tail(labels), c)

\* The category c is, ignoring case, one of the labels of the panel.
OnPanel(c) == \E i \in 1..Len(panel) : Lower(panel[i]) = c

\* C8: when __filter_news returns, every requested category that is a label
\* of the panel ignoring case has been clicked exactly once, and nothing
\* else was clicked, whatever the order and the case of the labels.
C8_EveryMatchClickedOnce ==
    pc = "filtered" =>
        /\ \A c \in CategorySet(categories) :
              OnPanel(c) => ClicksOn(clicked, c) = 1
        /\ \A j \in 1..Len(clicked) :
              Lower(clicked[j]) \in CategorySet(categories)

\* C8 witness: "Politics,World" against the panel "world", "POLITICS": both
\* labels were clicked, in the order of the panel.
C8_Witness ==
    /\ pc = "filtered"
    /\ categories = Cat_Politics_World
    /\ panel = <<Label_world, Label_POLITICS>>
    /\ clicked = <<Label_world, Label_POLITICS>>

(***************************************************************************)
(* Properties of the money flag (SpecNews).                                *)
(***************************************************************************)
\* The answers the specification lists for the money pattern.
ListedMoney(text) ==
    text \in {Text_11_1_total, Text_111_111_11, Text_spent_11_dollars,
              Text_11_dollars_worth}

\* The title and the summary are among the listed texts (or empty).
ListedTexts ==
    {Empty, Text_11_1_total, Text_111_111_11, Text_spent_11_dollars,
     Text_11_dollars_worth, Text_no_amount_here, Text_1111_1}

\* C9 as stated: the money flag is true iff the title or the summary is one
\* of the four texts listed as matching; "no amount here" and "$1111.1" do
\* not match.
C9_MoneyAsListed ==
    (pc = "built" /\ news.title \in ListedTexts
                  /\ news.description \in ListedTexts) =>
        (news.money <=> (ListedMoney(news.title) \/ ListedMoney(news.description)))

\* C9 amended: as listed, except that "$1111.1" matches (the one-decimal form
\* takes any run of digits); it is "$1111.11", two decimals and no
\* separators, that does not match.
C9_MoneyWithUngroupedOneDecimal ==
    (pc = "built" /\ news.title \in ListedTexts \cup {Text_1111_11}
                  /\ news.description \in ListedTexts \cup {Text_1111_11}) =>
        (news.money <=>
            \/ ListedMoney(news.title) \/ news.title = Text_1111_1
            \/ ListedMoney(news.description) \/ news.description = Text_1111_1)

\* C9 witness: a record titled "$1111.1" with the summary "no amount here"
\* carries the money flag.
C9_Witness ==
    /\ pc = "built"
    /\ news.title = Text_1111_1
    /\ news.description = Text_no_amount_here
    /\ news.money

(***************************************************************************)
(* Properties of collect_news of tasks.py (SpecTask).                      *)
(***************************************************************************)
\* collect_news of tasks.py is over: it returned, or an exception left it.
TaskOver == pc \in {"task_done", "task_raised"}

\* The screenshot __output_results asks for was asked for.
SnapshotTried == \E i \in 1..Len(shots) : shots[i] = "output/apnews.png"

\* C11 as stated: every run of collect_news that is over tried the final
\* snapshot, and a run whose last call was that snapshot returned normally
\* (a failure of the snapshot is swallowed).
C11_SnapshotTriedAndSwallowed ==
    TaskOver =>
        /\ SnapshotTried
        /\ (shots[Len(shots)] = "output/apnews.png" => pc = "task_done")

\* C19 as stated: once a setup phase has raised, nothing more of collect_news
\* runs and the error reaches the caller.
C19_SetupFailureIsTerminal == failed # << >> => pc = "task_raised"


(***************************************************************************)
(* More properties of the crawl (Spec).                                    *)
(***************************************************************************)
\* The for loop went through every node of the page and the code after it
\* runs: the page counter is read and compared.
PageScanEnds == pc = "for" /\ idx = Len(nodes) /\ pc' # "for"

\* C12 as stated: after a page scan that did not abort, the next page is
\* asked for exactly when the page number is less than the number of pages,
\* as numbers; otherwise __get_news returns.
C12_AdvanceIffNumericallyLess ==
    [][PageScanEnds =>
          /\ (page < Len(site) => (page' = page + 1 /\ pc' = "while"))
          /\ (~(page < Len(site)) => (page' = page /\ pc' = "save"))]_vars

\* __get_news has returned.
Stopped == pc \in {"save", "done"}

\* C13 as stated: whatever the pages hold and whether or not the click on
\* next page advances, the crawl loop reaches Stopped in the end.
C13_StalledCrawlStops == <>Stopped

\* The click on next page.
NextPageClicked == pc = "for" /\ pc' = "while"

\* C14 as stated: next page is never clicked once the deadline has passed.
C14_NoClickAfterDeadline == [][NextPageClicked => clock < deadline]_vars

\* The nodes the for loop has gone through since __get_news began, in order
\* (while the loop runs).
Scanned ==
    Flatten(SubSeq(site, 1, page - 1))
    \o (IF pc = "while" THEN << >> ELSE SubSeq(nodes, 1, idx))

\* The node gives no record: it has no date, or one outside the window.
Unproductive(node) == ~Accepted(NewsOf(node, SearchPhrase, EmptyStore), now, months)

\* How many unproductive nodes end the sequence.
RECURSIVE Trailing(_)
Trailing(seq) ==
    IF seq = << >> \/ ~Unproductive(seq[Len(seq)]) THEN 0
    ELSE 1 + Trailing(SubSeq(seq, 1, Len(seq) - 1))

\* C15: the budget changes only in a node iteration, by one down on a node
\* that gives no record and to the ceiling on a record; a page transition
\* leaves it as it is.  So while the loop runs the budget is the ceiling less
\* the unproductive nodes scanned in a row, page boundaries or not, and within
\* the deadline the loop stops exactly when they are as many as the ceiling.
C15_BudgetCountsAcrossPages ==
    /\ [][remaining_faults' # remaining_faults =>
            /\ ScanStep
            /\ \/ rows' = rows /\ remaining_faults' = remaining_faults - 1
               \/ rows' # rows /\ remaining_faults' = FAULTS_TOLERANCE]_vars
    /\ [](pc \in {"while", "for"} =>
            /\ remaining_faults = FAULTS_TOLERANCE - Trailing(Scanned)
            /\ (pc = "while" =>
                  (LoopGuard(remaining_faults)
                     <=> Trailing(Scanned) < FAULTS_TOLERANCE))
            /\ (pc = "for" /\ idx < Len(nodes) /\ clock < deadline =>
                  (MustStop(clock, deadline, remaining_faults)
                     <=> Trailing(Scanned) = FAULTS_TOLERANCE)))

\* C15 witness: past the first page the budget is spent before a node, after
\* fewer nodes of this page than the ceiling: nodes of earlier pages count.
C15_Witness ==
    /\ pc = "for"
    /\ page > 1
    /\ idx \in 1..(FAULTS_TOLERANCE - 1)
    /\ idx < Len(nodes)
    /\ clock < deadline
    /\ remaining_faults = 0

\* C17 as stated: a node iteration that appends no record leaves the files
\* of OUTPUT_DIR as they were.
C17_DiscardedNodeWritesNothing ==
    [][(ScanStep /\ rows' = rows) => store' = store]_vars


(***************************************************************************)
(* More properties of News (SpecNews).                                     *)
(***************************************************************************)
\* The fields News extracts from the node, by the name of their lookups.
Fields == {"title", "date", "description", "picture"}

\* The lookups of a field as the node answers them, attempt by attempt.
Lookups(f) == IF f = "picture" THEN nodes[1].img ELSE nodes[1][f]

\* News was built from the node.
Built == pc = "built"

OpenFailed == pc = "filter_for" /\ ~opened

\* C18 as stated: the heading is clicked at most twice in a round, and after
\* a round whose clicks all failed no checkbox is activated any more.
C18_GivesUpAfterFailedOpen ==
    /\ [](heading_tries <= 2)
    /\ [][OpenFailed => clicked' = clicked]_vars

\* C20 as stated: with the empty string for categories the pending set is
\* empty, the heading is never clicked and no checkbox is activated.
C20_NoCategoriesNoAction ==
    categories = Empty =>
        /\ pending = {}
        /\ heading_tries = 0
        /\ clicked = << >>

====
